---- MODULE Spec2Model ----
(***************************************************************************)
(* A model of Build/lib/rules/base.ts: the RuleOutput accumulator with its *)
(* promise-chained ingestion, the done() barrier, the memoized preprocess  *)
(* step, write()/writeClash(), and the publisher functions fileEqual and   *)
(* compareAndWriteFile.                                                    *)
(*                                                                         *)
(* Text.  A line is a sequence of symbols.  A symbol is a one-character    *)
(* string, or a rule keyword ("DOMAIN-SUFFIX", "no-resolve") taken as one  *)
(* indivisible symbol; "," and "\n" are symbols of their own, so split,    *)
(* join and reading a file by line are computed, never assumed.            *)
(***************************************************************************)
EXTENDS Integers, Sequences, FiniteSets, TLC

VARIABLES
  eqLinesA,     \* fileEqual: the candidate lines (linesA)
  eqSource,     \* fileEqual: the lines the source iterable yields
  eqPc,         \* fileEqual: "idle" before the call, "returned" after it
  eqResult      \* fileEqual: the boolean returned (FALSE before the call)

varsEq == <<eqLinesA, eqSource, eqPc, eqResult>>

VARIABLES
  acc,          \* RuleOutput: the buckets, one field per bucket
  clPc,         \* classifier: "idle" before the iteration, "done" after it
  clIn,         \* classifier: the parts the line was built from
  clLine,       \* classifier: the line the source yielded
  clBefore,     \* classifier: the buckets before the iteration
  clThrew       \* classifier: whether the iteration threw

varsCl == <<clPc, clIn, clLine, clBefore, clThrew>>

VARIABLES
  fsExists,         \* the file at filePath exists (fs.existsSync)
  fsContent,        \* its content, a text
  readerFinalEmpty, \* readFileByLine yields a last empty line for a final newline
  cawPc,            \* compareAndWriteFile: "idle", "compared", "streaming",
                    \* "awaitAck", "returned", "threw"
  cawLines,         \* compareAndWriteFile: linesA of the call
  cawIsEqual,       \* compareAndWriteFile: isEqual
  cawI,             \* compareAndWriteFile: the loop counter i of the streaming write
  streamOpen,       \* a write stream on the file is open (created, not ended)
  cawWrites,        \* write operations the call has issued (writeFile, stream writes)
  pubWritten        \* the lines of the last completed write, while the file holds them

varsPub == <<fsExists, fsContent, readerFinalEmpty, cawPc, cawLines, cawIsEqual,
             cawI, streamOpen, cawWrites, pubWritten>>

VARIABLES
  pendingPromise,  \* RuleOutput.pendingPromise: 0 for null, else the task whose promise it is
  tasks,           \* the ingestion tasks queued so far, in call order
  calls,           \* the done(), write() and writeClash() calls made so far
  title,           \* RuleOutput.title: "null" or "set"
  description,     \* RuleOutput.description: "null" or "set"
  preprocessed,    \* RuleOutput.$$preprocessed: "null" or "view"
  preprocessCalls, \* how many times preprocess() has been invoked
  reads,           \* how many times $preprocessed has been read
  lastRead,        \* the outcome of the last read: "none", "threw", "returned"
  mutLog,          \* the task of each bucket mutation, in the order they happened
  emitted,         \* the emitters called so far
  published        \* the channels compareAndWriteFile has been called for

varsSeq == <<pendingPromise, tasks, calls, title, description, preprocessed,
             preprocessCalls, reads, lastRead, mutLog, emitted, published>>

vars == <<varsEq, acc, varsCl, varsPub, varsSeq>>

(***************************************************************************)
(* Bounds of the model.                                                    *)
(***************************************************************************)
\* longest candidate, and longest body of an existing file, in lines
MaxLines == 2

\* ingestion calls, done() calls and reads of $preprocessed, together, on
\* one instance
MaxOps == 4

\* ingestion calls and write() or writeClash() calls, together, on an
\* instance that ingests and is written
MaxWriteOps == 3

\* write() and writeClash() calls on an instance that ingests nothing
MaxWriteCalls == 1

(***************************************************************************)
(* Constants of the program.                                               *)
(***************************************************************************)
\* `if (linesALen < 500)`: below it one buffered write, from it on a stream
StreamThreshold == 500

(***************************************************************************)
(* JavaScript values and string primitives.                                *)
(***************************************************************************)
\* the value of a missing array element (splitted[1] of a line without a
\* comma): a string value of its own, which no line of the model contains
Undefined == <<"undefined">>

\* the value of an out-of-range string index (lineA[3] of a short line)
UndefinedChar == "undefined"

\* str[i] with a 0-based index: undefined past the end
CharAt(str, i) == IF i >= 0 /\ i < Len(str) THEN str[i + 1] ELSE UndefinedChar

\* all sequences over S of length 0..n
SeqsUpTo(S, n) == UNION {[1..k -> S] : k \in 0..n}

\* the set of elements of a sequence
Range(s) == {s[i] : i \in 1..Len(s)}

(***************************************************************************)
(* fileEqual(linesA, source)                                               *)
(***************************************************************************)
\* the comparison without the comment wildcards: identical lines only
linesMatchExact(lineA, lineB) == lineA = lineB

\* the comparison without the test of '#' at offset 3
linesMatchNoOffset3(lineA, lineB) ==
  LET firstCharA == CharAt(lineA, 0)
      firstCharB == CharAt(lineB, 0)
  IN
  IF Len(lineA) = 0 /\ Len(lineB) = 0 THEN TRUE
  ELSE IF Len(lineA) = 0 \/ Len(lineB) = 0 THEN FALSE
  ELSE IF firstCharA # firstCharB THEN FALSE
  ELSE IF firstCharA = "#" /\ firstCharB = "#" THEN TRUE
  ELSE IF firstCharA = "!" /\ firstCharB = "!" THEN TRUE
  ELSE IF /\ firstCharA = "/" /\ firstCharB = "/"
          /\ CharAt(lineA, 1) = "/" /\ CharAt(lineB, 1) = "/"
       THEN TRUE
  ELSE lineA = lineB

\* The comparison of one candidate line with the existing line at the same
\* index: TRUE where the loop body reaches a `continue` (or its end), FALSE
\* where it returns false.
linesMatch(lineA, lineB) ==
  LET firstCharA == CharAt(lineA, 0)
      firstCharB == CharAt(lineB, 0)
  IN
  IF Len(lineA) = 0 /\ Len(lineB) = 0 THEN TRUE
  ELSE IF Len(lineA) = 0 \/ Len(lineB) = 0 THEN FALSE
  ELSE IF firstCharA # firstCharB THEN FALSE
  ELSE IF firstCharA = "#" /\ firstCharB = "#" THEN TRUE
  ELSE IF firstCharA = "!" /\ firstCharB = "!" THEN TRUE
  ELSE IF /\ firstCharA = "/" /\ firstCharB = "/"
          /\ CharAt(lineA, 1) = "/" /\ CharAt(lineB, 1) = "/"
          /\ CharAt(lineA, 3) = "#" /\ CharAt(lineB, 3) = "#"
       THEN TRUE
  ELSE lineA = lineB

\* The `for await (const lineB of source)` loop and the return after it,
\* entered with the loop counter at `index` (-1 at the call).  The pass with
\* counter i reads source[i + 1] (1-based) and returns when i is past the
\* candidate's last index or the two lines do not match; the loop's result
\* is that of the first pass that returns, and the passes after it never
\* run.  Without such a pass the iterator is exhausted and the counter is
\* left at the index of the source's last line.
fileEqualLoop(linesA, source, index) ==
  LET linesABound == Len(linesA) - 1
      lastIndex == IF Len(source) - 1 > index THEN Len(source) - 1 ELSE index
      \* the pass with counter linesABound + 1 always returns
      lastPass == IF lastIndex > linesABound + 1 THEN linesABound + 1 ELSE lastIndex
      passReturns(i) == i > linesABound \/ ~linesMatch(linesA[i + 1], source[i + 1])
      returning == {i \in (index + 1)..lastPass : passReturns(i)}
  IN
  IF returning = {}
  THEN \* "The file becomes larger"
       ~(lastIndex < linesABound)
  ELSE
    LET i == CHOOSE k \in returning : \A j \in returning : k <= j
        lineB == source[i + 1]
    IN
    IF i > linesABound
    THEN (i = Len(linesA) /\ Len(lineB) = 0)
    ELSE FALSE

\* fileEqual without the guard for an empty candidate
fileEqualNoEmptyGuard(linesA, source) == fileEqualLoop(linesA, source, -1)

fileEqual(linesA, source) ==
  IF Len(linesA) = 0 THEN FALSE ELSE fileEqualLoop(linesA, source, -1)

(***************************************************************************)
(* The accumulator: RuleOutput's buckets.                                  *)
(***************************************************************************)
SetBuckets ==
  { "domainKeywords", "domainWildcard", "userAgent", "processName",
    "processPath", "urlRegex", "ipcidr", "ipcidrNoResolve", "ipasn",
    "ipasnNoResolve", "ipcidr6", "ipcidr6NoResolve", "geoip",
    "groipNoResolve", "sourceIpOrCidr", "sourcePort", "destPort" }

Buckets == SetBuckets \cup {"domainTrie", "otherRules"}

\* the buckets after construction
EmptyAcc == [b \in Buckets |-> IF b = "otherRules" THEN <<>> ELSE {}]

\* Set.prototype.add on one bucket
setAdd(a, bucket, v) == [a EXCEPT ![bucket] = @ \cup {v}]

\* HostnameSmolTrie.add(domain, includeAllSubdomain, meta, hostnameFromIndex),
\* by its contract: the trie holds the hostname from hostnameFromIndex on,
\* with its exact/suffix flag
trieAdd(a, domain, includeAllSubdomain, hostnameFromIndex) ==
  [a EXCEPT !["domainTrie"] =
     @ \cup {[domain |-> SubSeq(domain, hostnameFromIndex + 1, Len(domain)),
              suffix |-> includeAllSubdomain]}]

\* HostnameSmolTrie.whitelist(domain), by its contract: a leading dot makes
\* it cover the domain and its subdomains; the entries covered are removed
trieCovers(white, entry) ==
  LET suffix == CharAt(white, 0) = "."
      name == IF suffix THEN SubSeq(white, 2, Len(white)) ELSE white
      n == Len(name)
      d == entry.domain
  IN
  \/ d = name
  \/ /\ suffix
     /\ Len(d) > n + 1
     /\ SubSeq(d, Len(d) - n + 1, Len(d)) = name
     /\ d[Len(d) - n] = "."

whitelistDomain(a, domain) ==
  [a EXCEPT !["domainTrie"] = {e \in @ : ~trieCovers(domain, e)}]

addDomain(a, domain) == trieAdd(a, domain, FALSE, 0)

addDomainSuffix(a, domain, lineFromDot) ==
  trieAdd(a, domain, TRUE, IF lineFromDot THEN 1 ELSE 0)

addDomainKeyword(a, keyword) == setAdd(a, "domainKeywords", keyword)

(***************************************************************************)
(* Classification of one rule line: the body of the loop of                *)
(* addFromRulesetPromise.                                                  *)
(***************************************************************************)
\* String.prototype.split(','): the fields between the commas
RECURSIVE splitFrom(_, _, _, _)
splitFrom(line, i, cur, out) ==
  IF i > Len(line) THEN Append(out, cur)
  ELSE IF line[i] = "," THEN splitFrom(line, i + 1, <<>>, Append(out, cur))
  ELSE splitFrom(line, i + 1, Append(cur, line[i]), out)

split(line) == splitFrom(line, 1, <<>>, <<>>)

\* Array.prototype.join(','), the elements from index `from` (1-based) on
RECURSIVE joinFrom(_, _)
joinFrom(fields, from) ==
  IF from > Len(fields) THEN <<>>
  ELSE IF from = Len(fields) THEN fields[from]
  ELSE fields[from] \o <<",">> \o joinFrom(fields, from + 1)

\* String.prototype.includes of one character
includes(str, ch) == ch \in Range(str)

\* the outcome of one iteration: the buckets after it, and whether it threw
Returned(a) == [threw |-> FALSE, acc |-> a]
Threw(a) == [threw |-> TRUE, acc |-> a]

\* classification with the no-resolve selection of IP-CIDR inverted
resolveBucketSwapped(arg, noResolve, resolve) ==
  IF arg = <<"no-resolve">> THEN resolve ELSE noResolve

\* (arg === 'no-resolve' ? noResolve : resolve)
resolveBucket(arg, noResolve, resolve) ==
  IF arg = <<"no-resolve">> THEN noResolve ELSE resolve

classifyRuleLine(a, line) ==
  LET splitted == split(line)
      type == splitted[1]
      value == IF Len(splitted) >= 2 THEN splitted[2] ELSE Undefined
      arg == IF Len(splitted) >= 3 THEN splitted[3] ELSE Undefined
  IN
  CASE type = <<"DOMAIN">> ->
         \* the trie reads the hostname's characters: undefined is a TypeError
         IF value = Undefined THEN Threw(a) ELSE Returned(trieAdd(a, value, FALSE, 0))
    [] type = <<"DOMAIN-SUFFIX">> ->
         IF value = Undefined THEN Threw(a) ELSE Returned(addDomainSuffix(a, value, FALSE))
    [] type = <<"DOMAIN-KEYWORD">> -> Returned(addDomainKeyword(a, value))
    [] type = <<"DOMAIN-WILDCARD">> -> Returned(setAdd(a, "domainWildcard", value))
    [] type = <<"USER-AGENT">> -> Returned(setAdd(a, "userAgent", value))
    [] type = <<"PROCESS-NAME">> ->
         \* value.includes of undefined is a TypeError
         IF value = Undefined THEN Threw(a)
         ELSE IF includes(value, "/") \/ includes(value, "\\")
              THEN Returned(setAdd(a, "processPath", value))
              ELSE Returned(setAdd(a, "processName", value))
    [] type = <<"URL-REGEX">> -> Returned(setAdd(a, "urlRegex", joinFrom(splitted, 2)))
    [] type = <<"IP-CIDR">> ->
         Returned(setAdd(a, resolveBucket(arg, "ipcidrNoResolve", "ipcidr"), value))
    [] type = <<"IP-CIDR6">> ->
         Returned(setAdd(a, resolveBucket(arg, "ipcidr6NoResolve", "ipcidr6"), value))
    [] type = <<"IP-ASN">> ->
         Returned(setAdd(a, resolveBucket(arg, "ipasnNoResolve", "ipasn"), value))
    [] type = <<"GEOIP">> ->
         Returned(setAdd(a, resolveBucket(arg, "groipNoResolve", "geoip"), value))
    [] type = <<"SRC-IP">> -> Returned(setAdd(a, "sourceIpOrCidr", value))
    [] type = <<"SRC-PORT">> -> Returned(setAdd(a, "sourcePort", value))
    [] type = <<"DEST-PORT">> -> Returned(setAdd(a, "destPort", value))
    [] OTHER -> Returned([a EXCEPT !["otherRules"] = Append(@, line)])

\* classification of one line of a domain set: the body of the loop of
\* addFromDomainsetPromise
classifyDomainsetLine(a, line) ==
  IF CharAt(line, 0) = "."
  THEN Returned(addDomainSuffix(a, line, TRUE))
  ELSE Returned(trieAdd(a, line, FALSE, 0))

(***************************************************************************)
(* Inputs of the comparator.                                               *)
(***************************************************************************)
\* the lines compared: empty, '#' and '!' comments, header dividers
\* ("//" with '#' at offset 3), a "//" line without the '#', a rule line
EqLines ==
  { <<>>,
    <<"#", "a">>, <<"#", "b">>,
    <<"!", "a">>, <<"!", "b">>,
    <<"/", "/", "a", "#">>, <<"/", "/", "b", "#">>, <<"/", "/", "a", "b">>,
    <<"a">> }

\* what an existing file may hold after its first MaxLines lines
EqTails == { <<>>, << <<>> >>, << <<>>, <<>> >>, << <<>>, <<"a">> >> }

\* the lines of a candidate: one of each kind (the existing file ranges over
\* all of EqLines, so each kind meets the same and a different content)
EqLinesA ==
  { <<>>, <<"#", "a">>, <<"!", "a">>, <<"/", "/", "a", "#">>, <<"/", "/", "a", "b">>,
    <<"a">> }

EqCandidates == SeqsUpTo(EqLinesA, MaxLines)

EqSources == {body \o tail : body \in SeqsUpTo(EqLines, MaxLines), tail \in EqTails}

\* the comparator, the classifier and the publisher at rest
EqOff ==
  /\ eqLinesA = <<>> /\ eqSource = <<>> /\ eqPc = "off" /\ eqResult = FALSE

ClOff ==
  /\ clPc = "off" /\ clIn = <<>> /\ clLine = <<>> /\ clBefore = EmptyAcc
  /\ clThrew = FALSE

PubOff ==
  /\ fsExists = FALSE /\ fsContent = <<>> /\ readerFinalEmpty = FALSE
  /\ cawPc = "off" /\ cawLines = <<>> /\ cawIsEqual = FALSE /\ cawI = 0
  /\ streamOpen = FALSE /\ cawWrites = 0
  /\ pubWritten = [some |-> FALSE, lines |-> <<>>]

SeqOff ==
  /\ pendingPromise = 0 /\ tasks = <<>> /\ calls = <<>>
  /\ title = "null" /\ description = "null"
  /\ preprocessed = "null" /\ preprocessCalls = 0 /\ reads = 0 /\ lastRead = "none"
  /\ mutLog = <<>> /\ emitted = {} /\ published = {}

\* the components no step of the comparator touches
EqFrame ==
  /\ acc = EmptyAcc
  /\ ClOff
  /\ PubOff
  /\ SeqOff

InitEq ==
  /\ EqFrame
  /\ eqLinesA \in EqCandidates
  /\ eqSource \in EqSources
  /\ eqPc = "idle"
  /\ eqResult = FALSE

\* await fileEqual(eqLinesA, eqSource)
FileEqualCall ==
  /\ eqPc = "idle"
  /\ eqPc' = "returned"
  /\ eqResult' = fileEqual(eqLinesA, eqSource)
  /\ UNCHANGED <<eqLinesA, eqSource, acc, varsCl, varsPub, varsSeq>>

NextEq == FileEqualCall

SpecEq == InitEq /\ [][NextEq]_vars

(***************************************************************************)
(* The classifier on its own: one iteration of addFromRulesetPromise over  *)
(* a line built from its parts, from buckets that are empty or already     *)
(* hold a value each.                                                      *)
(***************************************************************************)
SupportedTypes ==
  { "DOMAIN", "DOMAIN-SUFFIX", "DOMAIN-KEYWORD", "DOMAIN-WILDCARD",
    "USER-AGENT", "PROCESS-NAME", "URL-REGEX", "IP-CIDR", "IP-CIDR6",
    "IP-ASN", "GEOIP", "SRC-IP", "SRC-PORT", "DEST-PORT" }

\* type tokens the switch does not know (the tokens are case-sensitive)
OtherTypes == {"domain", "FOO"}

\* VALUE: a name, a value with '/', a value with '\', the empty value
ClValues == { <<"a">>, <<"b", "/">>, <<"\\", "b">>, <<>> }

\* the fields after VALUE
ClArgs ==
  { <<>>, << <<"no-resolve">> >>, << <<"x">> >>,
    << <<"no-resolve">>, <<"x">> >>, << <<"x">>, <<"no-resolve">> >> }

\* the text of the line 'TYPE,VALUE[,ARG...]'
RECURSIVE argsText(_)
argsText(args) ==
  IF args = <<>> THEN <<>> ELSE <<",">> \o Head(args) \o argsText(Tail(args))

makeLine(type, value, args) == <<type, ",">> \o value \o argsText(args)

\* buckets that already hold the value "a" (and one unrecognized line)
SeededAcc ==
  [b \in Buckets |->
     IF b = "otherRules" THEN << <<"FOO", ",", "a">> >>
     ELSE IF b = "domainTrie"
          THEN {[domain |-> <<"a">>, suffix |-> FALSE], [domain |-> <<"a">>, suffix |-> TRUE]}
          ELSE {<<"a">>}]

\* the components no step of the classifier touches
ClFrame ==
  /\ EqOff
  /\ PubOff
  /\ SeqOff

InitClassify ==
  /\ ClFrame
  /\ acc \in {EmptyAcc, SeededAcc}
  /\ clPc = "idle"
  /\ clIn = <<>>
  /\ clLine = <<>>
  /\ clBefore = acc
  /\ clThrew = FALSE

\* one iteration of `for await (const line of source)` in
\* addFromRulesetPromise
ClassifyLine ==
  /\ clPc = "idle"
  /\ \E type \in SupportedTypes \cup OtherTypes, value \in ClValues, args \in ClArgs :
       LET line == makeLine(type, value, args)
           r == classifyRuleLine(acc, line)
       IN
       /\ clIn' = [type |-> type, value |-> value, args |-> args]
       /\ clLine' = line
       /\ clBefore' = acc
       /\ acc' = r.acc
       /\ clThrew' = r.threw
  /\ clPc' = "done"
  /\ UNCHANGED <<varsEq, varsPub, varsSeq>>

\* the lines without a comma: the empty line, a word, and each type token
\* standing alone
NoCommaLines ==
  { <<>>, <<"a">> } \cup { <<type>> : type \in SupportedTypes \cup OtherTypes }

\* one iteration of the same loop on a line that has no comma (splitted has
\* one element: value and arg are undefined)
ClassifyLineNoComma ==
  /\ clPc = "idle"
  /\ \E line \in NoCommaLines :
       LET r == classifyRuleLine(acc, line) IN
       /\ clIn' = [type |-> line, value |-> Undefined, args |-> <<>>]
       /\ clLine' = line
       /\ clBefore' = acc
       /\ acc' = r.acc
       /\ clThrew' = r.threw
  /\ clPc' = "doneNoComma"
  /\ UNCHANGED <<varsEq, varsPub, varsSeq>>

NextClassify ==
  \/ ClassifyLine
  \/ ClassifyLineNoComma

SpecClassify == InitClassify /\ [][NextClassify]_vars

(***************************************************************************)
(* The classifier's claims, over SpecClassify.                             *)
(***************************************************************************)
\* ARG of the line classified: its third field
ClArg == IF clIn.args = <<>> THEN Undefined ELSE clIn.args[1]

\* the bucket the routing table of the specification gives the line
ClTarget ==
  LET nr == ClArg = <<"no-resolve">> IN
  CASE clIn.type \in {"DOMAIN", "DOMAIN-SUFFIX"} -> "domainTrie"
    [] clIn.type = "DOMAIN-KEYWORD" -> "domainKeywords"
    [] clIn.type = "DOMAIN-WILDCARD" -> "domainWildcard"
    [] clIn.type = "USER-AGENT" -> "userAgent"
    [] clIn.type = "PROCESS-NAME" ->
         IF "/" \in Range(clIn.value) \/ "\\" \in Range(clIn.value)
         THEN "processPath" ELSE "processName"
    [] clIn.type = "URL-REGEX" -> "urlRegex"
    [] clIn.type = "IP-CIDR" -> IF nr THEN "ipcidrNoResolve" ELSE "ipcidr"
    [] clIn.type = "IP-CIDR6" -> IF nr THEN "ipcidr6NoResolve" ELSE "ipcidr6"
    [] clIn.type = "IP-ASN" -> IF nr THEN "ipasnNoResolve" ELSE "ipasn"
    [] clIn.type = "GEOIP" -> IF nr THEN "groipNoResolve" ELSE "geoip"
    [] clIn.type = "SRC-IP" -> "sourceIpOrCidr"
    [] clIn.type = "SRC-PORT" -> "sourcePort"
    [] clIn.type = "DEST-PORT" -> "destPort"
    [] OTHER -> "otherRules"

\* what the target bucket holds after the line, given what it held before
ClTargetAfter ==
  LET before == clBefore[ClTarget] IN
  CASE ClTarget = "otherRules" -> Append(before, clLine)
    [] ClTarget = "domainTrie" ->
         before \cup {[domain |-> clIn.value, suffix |-> clIn.type = "DOMAIN-SUFFIX"]}
    [] ClTarget = "urlRegex" ->
         \* everything after "URL-REGEX,"
         before \cup {SubSeq(clLine, 3, Len(clLine))}
    [] OTHER -> before \cup {clIn.value}

ClChanged == {b \in Buckets : acc[b] # clBefore[b]}

\* C10: a well-formed line 'TYPE,VALUE[,ARG]' is routed to exactly one
\* bucket, the one the routing table names (no-resolve bucket exactly when
\* ARG is 'no-resolve', processPath exactly when VALUE holds '/' or '\',
\* otherRules with the whole line for any other type token); every other
\* bucket is left unchanged, and exactly one bucket changes whenever the
\* target did not hold the value already.
C10_RoutedToExactlyOneBucket ==
  clPc = "done" =>
    /\ ~clThrew
    /\ acc[ClTarget] = ClTargetAfter
    /\ \A b \in Buckets \ {ClTarget} : acc[b] = clBefore[b]
    /\ ClChanged \subseteq {ClTarget}
    /\ (clBefore = EmptyAcc => Cardinality(ClChanged) = 1)

\* C10's case: an IP-CIDR line with ARG 'no-resolve' has been classified
\* into the empty buckets and the no-resolve bucket alone holds its value
C10_Witness ==
  /\ clPc = "done"
  /\ clIn.type = "IP-CIDR"
  /\ ClArg = <<"no-resolve">>
  /\ clBefore = EmptyAcc
  /\ acc["ipcidrNoResolve"] = {clIn.value}
  /\ acc["ipcidr"] = {}

(***************************************************************************)
(* The bulk CIDR adders.                                                   *)
(***************************************************************************)
\* ipToCidr with the version ignored: '/32' always
ipToCidrAlways32(ip, version) ==
  IF includes(ip, "/") THEN ip ELSE ip \o <<"/", "3", "2">>

\* RuleOutput.ipToCidr(ip, version)
ipToCidr(ip, version) ==
  IF includes(ip, "/") THEN ip
  ELSE IF version = 4 THEN ip \o <<"/", "3", "2">>
  ELSE ip \o <<"/", "1", "2", "8">>

\* the loop of a bulk adder over cidrs[from..]:
\* bucket.add(RuleOutput.ipToCidr(cidrs[i], version))
RECURSIVE bulkAddCIDR(_, _, _, _, _)
bulkAddCIDR(a, bucket, version, cidrs, from) ==
  IF from > Len(cidrs) THEN a
  ELSE bulkAddCIDR(setAdd(a, bucket, ipToCidr(cidrs[from], version)),
                   bucket, version, cidrs, from + 1)

\* the addresses given to the bulk adders: bare and with a prefix length
CidrInputs == { <<"1">>, <<"1", "/", "8">>, <<":">>, <<":", "/", "6">> }

\* a call of one bulk adder on the buckets
BulkCall(op, bucket, version) ==
  /\ clPc = "idle"
  /\ \E cidrs \in SeqsUpTo(CidrInputs, MaxLines) :
       /\ clIn' = [op |-> op, cidrs |-> cidrs]
       /\ acc' = bulkAddCIDR(acc, bucket, version, cidrs, 1)
  /\ clLine' = <<>>
  /\ clBefore' = acc
  /\ clThrew' = FALSE
  /\ clPc' = "bulk"
  /\ UNCHANGED <<varsEq, varsPub, varsSeq>>

BulkAddCIDR4 == BulkCall("bulkAddCIDR4", "ipcidr", 4)

BulkAddCIDR4NoResolve == BulkCall("bulkAddCIDR4NoResolve", "ipcidrNoResolve", 4)

BulkAddCIDR6 == BulkCall("bulkAddCIDR6", "ipcidr6", 6)

BulkAddCIDR6NoResolve == BulkCall("bulkAddCIDR6NoResolve", "ipcidr6NoResolve", 6)

NextCidr ==
  \/ BulkAddCIDR4
  \/ BulkAddCIDR4NoResolve
  \/ BulkAddCIDR6
  \/ BulkAddCIDR6NoResolve

SpecCidr == InitClassify /\ [][NextCidr]_vars

\* the IP version a bulk adder is for, and the bucket it fills
BulkVersion == IF clIn.op \in {"bulkAddCIDR4", "bulkAddCIDR4NoResolve"} THEN 4 ELSE 6

BulkBucket ==
  CASE clIn.op = "bulkAddCIDR4" -> "ipcidr"
    [] clIn.op = "bulkAddCIDR4NoResolve" -> "ipcidrNoResolve"
    [] clIn.op = "bulkAddCIDR6" -> "ipcidr6"
    [] clIn.op = "bulkAddCIDR6NoResolve" -> "ipcidr6NoResolve"

\* the normal form of an address: itself if it has a '/', else with '/32'
\* (version 4) or '/128' (version 6) appended
CidrImage(ip, version) ==
  IF "/" \in Range(ip) THEN ip
  ELSE ip \o (IF version = 4 THEN <<"/", "3", "2">> ELSE <<"/", "1", "2", "8">>)

\* C14: ipToCidr returns a value with '/' unchanged and appends '/32' or
\* '/128' by version otherwise, so it is idempotent; a bulk CIDR adder
\* inserts into its bucket the ipToCidr image, for its version, of each
\* input, each image containing '/', and changes no other bucket.
C14_BulkAddersNormalize ==
  clPc = "bulk" =>
    /\ \A k \in 1..Len(clIn.cidrs) :
         LET image == ipToCidr(clIn.cidrs[k], BulkVersion) IN
         /\ image = CidrImage(clIn.cidrs[k], BulkVersion)
         /\ ipToCidr(image, BulkVersion) = image
         /\ "/" \in Range(image)
    /\ acc[BulkBucket] =
         clBefore[BulkBucket]
           \cup {CidrImage(clIn.cidrs[k], BulkVersion) : k \in 1..Len(clIn.cidrs)}
    /\ \A b \in Buckets \ {BulkBucket} : acc[b] = clBefore[b]

\* C14's case: bulkAddCIDR6NoResolve has been given a bare address and one
\* with a prefix length, and its bucket holds the first with '/128' and the
\* second as it was
C14_Witness ==
  /\ clPc = "bulk"
  /\ clIn.op = "bulkAddCIDR6NoResolve"
  /\ clIn.cidrs = << <<":">>, <<":", "/", "6">> >>
  /\ clBefore = EmptyAcc
  /\ acc["ipcidr6NoResolve"] = { <<":", "/", "1", "2", "8">>, <<":", "/", "6">> }

(***************************************************************************)
(* The classifier's claims on lines without a comma and on empty values,   *)
(* over SpecClassify.                                                      *)
(***************************************************************************)
\* C11: a line with no comma (the empty line and a bare type token
\* included) is never an error: its classification does not throw, leaves
\* every typed bucket unchanged and appends the line verbatim to otherRules.
C11_NoCommaLineToOtherRules ==
  clPc = "doneNoComma" =>
    /\ ~clThrew
    /\ \A b \in Buckets \ {"otherRules"} : acc[b] = clBefore[b]
    /\ acc["otherRules"] = Append(clBefore["otherRules"], clLine)

\* C12: every set-typed bucket holds no empty string and no undefined value
\* (each value at most once holds by the buckets being sets).
C12_SetBucketsHoldNoEmptyValue ==
  \A b \in SetBuckets : <<>> \notin acc[b] /\ Undefined \notin acc[b]

(***************************************************************************)
(* The publisher: compareAndWriteFile on one file path.                    *)
(***************************************************************************)
\* fastStringArrayJoin(lines, '\n'): the lines lo..hi with a newline between
\* each two (computed by halves, the join being associative)
RECURSIVE joinLinesRange(_, _, _)
joinLinesRange(lines, lo, hi) ==
  IF lo > hi THEN <<>>
  ELSE IF lo = hi THEN lines[lo]
  ELSE LET mid == (lo + hi) \div 2 IN
       joinLinesRange(lines, lo, mid) \o <<"\n">> \o joinLinesRange(lines, mid + 1, hi)

fastStringArrayJoin(lines) == joinLinesRange(lines, 1, Len(lines))

\* the text of the buffered write: writeFile(filePath, join + '\n')
bufferedText(linesA) == fastStringArrayJoin(linesA) \o <<"\n">>

\* the positions of the newlines of a text, in order
newlineIdx(text) ==
  SelectSeq([i \in 1..Len(text) |-> i], LAMBDA i : text[i] = "\n")

\* readFileByLine(filePath) on a file holding `text`: the segments between
\* the newlines; the empty segment after a final newline is yielded only by
\* a reader that does so
readFileByLine(text, finalEmpty) ==
  LET nl == newlineIdx(text)
      n == Len(nl)
      seg(k) == SubSeq(text,
                       IF k = 1 THEN 1 ELSE nl[k - 1] + 1,
                       IF k <= n THEN nl[k] - 1 ELSE Len(text))
      all == [k \in 1..(n + 1) |-> seg(k)]
  IN
  IF all[n + 1] = <<>> /\ ~finalEmpty THEN SubSeq(all, 1, n) ELSE all

\* the lines of published files: empty, banner lines, rule lines
PubLines == { <<>>, <<"#", "a">>, <<"#", "b">>, <<"a">>, <<"b">> }

\* a long output: a banner line, rule lines "a", a last rule line
longLines(banner, last, n) ==
  [i \in 1..n |-> IF i = 1 THEN banner ELSE IF i = n THEN last ELSE <<"a">>]

LongCandidates ==
  { longLines(banner, last, n) :
      banner \in {<<"#", "a">>, <<"#", "b">>},
      last \in {<<"a">>, <<"b">>},
      n \in {StreamThreshold - 1, StreamThreshold} }

PubCandidates == SeqsUpTo(PubLines, MaxLines) \cup LongCandidates

\* the components no step of the publisher touches
PubFrame ==
  /\ EqOff
  /\ acc = EmptyAcc
  /\ ClOff
  /\ SeqOff

\* the file is absent, or holds what an earlier run published
InitPub ==
  /\ PubFrame
  /\ \/ fsExists = FALSE /\ fsContent = <<>>
     \/ fsExists = TRUE /\ fsContent \in {bufferedText(c) : c \in SeqsUpTo(PubLines, MaxLines)}
  /\ readerFinalEmpty \in BOOLEAN
  /\ cawPc = "idle"
  /\ cawLines = <<>>
  /\ cawIsEqual = FALSE
  /\ cawI = 0
  /\ streamOpen = FALSE
  /\ cawWrites = 0
  /\ pubWritten = [some |-> FALSE, lines |-> <<>>]

\* the comparison without the test of existsSync
cawCompareNoExists(linesA) ==
  fileEqual(linesA, readFileByLine(fsContent, readerFinalEmpty))

\* the size test with the threshold itself on the buffered side
streamsAbove(linesALen) == linesALen > StreamThreshold

\* `if (linesALen < 500) return writeFile(...)`: otherwise the stream
streams(linesALen) == ~(linesALen < StreamThreshold)

\* the chunk of one pass of the streaming loop: linesA[i] + '\n'
streamChunk(linesA, i) == linesA[i + 1] \o <<"\n">>

\* `compare ${filePath}`: existsSync, then fileEqual over the file's lines
cawCompare(linesA) ==
  IF fsExists
  THEN fileEqual(linesA, readFileByLine(fsContent, readerFinalEmpty))
  ELSE FALSE

\* compareAndWriteFile(span, linesA, filePath), up to the end of the compare
CawCall ==
  /\ cawPc \in {"idle", "returned"}
  /\ \E linesA \in PubCandidates :
       /\ cawLines' = linesA
       /\ cawIsEqual' = cawCompare(linesA)
  /\ cawPc' = "compared"
  /\ cawI' = 0
  /\ cawWrites' = 0
  /\ UNCHANGED <<fsExists, fsContent, readerFinalEmpty, streamOpen, pubWritten>>
  /\ UNCHANGED <<varsEq, acc, varsCl, varsSeq>>

\* `if (isEqual) return` ("same content, bail out writing")
CawBailOut ==
  /\ cawPc = "compared"
  /\ cawIsEqual
  /\ cawPc' = "returned"
  /\ UNCHANGED <<fsExists, fsContent, readerFinalEmpty, cawLines, cawIsEqual, cawI,
                 streamOpen, cawWrites, pubWritten>>
  /\ UNCHANGED <<varsEq, acc, varsCl, varsSeq>>

\* linesALen < 500: one writeFile of the joined content
CawWriteFile ==
  /\ cawPc = "compared"
  /\ ~cawIsEqual
  /\ ~streams(Len(cawLines))
  /\ fsExists' = TRUE
  /\ fsContent' = bufferedText(cawLines)
  /\ cawWrites' = cawWrites + 1
  /\ pubWritten' = [some |-> TRUE, lines |-> cawLines]
  /\ cawPc' = "returned"
  /\ UNCHANGED <<readerFinalEmpty, cawLines, cawIsEqual, cawI, streamOpen>>
  /\ UNCHANGED <<varsEq, acc, varsCl, varsSeq>>

\* fs.createWriteStream(filePath): the file is created or truncated
CawCreateWriteStream ==
  /\ cawPc = "compared"
  /\ ~cawIsEqual
  /\ streams(Len(cawLines))
  /\ fsExists' = TRUE
  /\ fsContent' = <<>>
  /\ streamOpen' = TRUE
  /\ cawI' = 0
  /\ pubWritten' = [some |-> FALSE, lines |-> <<>>]
  /\ cawPc' = "streaming"
  /\ UNCHANGED <<readerFinalEmpty, cawLines, cawIsEqual, cawWrites>>
  /\ UNCHANGED <<varsEq, acc, varsCl, varsSeq>>

\* one pass of the loop: asyncWriteToStream(writeStream, linesA[i] + '\n')
\* returns nothing, or a promise p and the loop awaits it
CawStreamWrite ==
  /\ cawPc = "streaming"
  /\ cawI < Len(cawLines)
  /\ fsContent' = fsContent \o streamChunk(cawLines, cawI)
  /\ cawI' = cawI + 1
  /\ cawWrites' = cawWrites + 1
  /\ \E p \in {"none", "promise"} :
       cawPc' = IF p = "promise" THEN "awaitAck" ELSE "streaming"
  /\ UNCHANGED <<fsExists, readerFinalEmpty, cawLines, cawIsEqual, streamOpen,
                 pubWritten>>
  /\ UNCHANGED <<varsEq, acc, varsCl, varsSeq>>

\* `await p` returns: the acknowledgment of the write has come
CawStreamAck ==
  /\ cawPc = "awaitAck"
  /\ cawPc' = "streaming"
  /\ UNCHANGED <<fsExists, fsContent, readerFinalEmpty, cawLines, cawIsEqual, cawI,
                 streamOpen, cawWrites, pubWritten>>
  /\ UNCHANGED <<varsEq, acc, varsCl, varsSeq>>

\* `await p` throws (the stream has failed): compareAndWriteFile rejects
\* from inside the loop
CawStreamFail ==
  /\ cawPc = "awaitAck"
  /\ cawPc' = "threw"
  /\ UNCHANGED <<fsExists, fsContent, readerFinalEmpty, cawLines, cawIsEqual, cawI,
                 streamOpen, cawWrites, pubWritten>>
  /\ UNCHANGED <<varsEq, acc, varsCl, varsSeq>>

\* writeStream.end() after the loop
CawStreamEnd ==
  /\ cawPc = "streaming"
  /\ ~(cawI < Len(cawLines))
  /\ streamOpen' = FALSE
  /\ pubWritten' = [some |-> TRUE, lines |-> cawLines]
  /\ cawPc' = "returned"
  /\ UNCHANGED <<fsExists, fsContent, readerFinalEmpty, cawLines, cawIsEqual, cawI,
                 cawWrites>>
  /\ UNCHANGED <<varsEq, acc, varsCl, varsSeq>>

NextPub ==
  \/ CawCall
  \/ CawBailOut
  \/ CawWriteFile
  \/ CawCreateWriteStream
  \/ CawStreamWrite
  \/ CawStreamAck
  \/ CawStreamFail
  \/ CawStreamEnd

SpecPub == InitPub /\ [][NextPub]_vars

(***************************************************************************)
(* The instance: ingestion chained on pendingPromise, the done() barrier,  *)
(* the memoized preprocess step, write() and writeClash().                 *)
(*                                                                         *)
(* A promise is named by the task whose completion settles it; 0 names     *)
(* null and the already resolved Promise.resolve().  Every step is the run *)
(* of one piece of code between two suspension points.                     *)
(***************************************************************************)
\* the sources ingested: rule lines with unrecognized ones among them, and
\* a source whose second line makes the classification throw
RulesetSources ==
  { << <<"FOO", ",", "a">> >>,
    << <<"DOMAIN-SUFFIX", ",", "a">>, <<"FOO", ",", "b">> >>,
    << <<"FOO", ",", "c">>, <<"PROCESS-NAME">> >> }

DomainsetSources == { << <<".", "a">>, <<"b">> >> }

\* the state of the promise p: "pending", "fulfilled" or "rejected"
RECURSIVE promiseState(_)
promiseState(p) ==
  IF p = 0 THEN "fulfilled"
  ELSE LET t == tasks[p] IN
       IF t.status = "done" THEN "fulfilled"
       ELSE IF t.status = "failed" THEN "rejected"
       ELSE IF promiseState(t.pred) = "rejected" THEN "rejected"
       ELSE "pending"

\* the task has been queued and has neither completed nor failed
TaskIncomplete(i) == tasks[i].status \in {"queued", "running"}

\* the promise a new task is chained on:
\* (this.pendingPromise ||= Promise.resolve()) / this.pendingPromise
chainTail == pendingPromise

newTask(kind, source, srcReady) ==
  [kind |-> kind, source |-> source, pred |-> chainTail, srcReady |-> srcReady,
   status |-> "queued", pos |-> 0]

\* addFromDomainset(source)
AddFromDomainset ==
  /\ \E source \in DomainsetSources :
       tasks' = Append(tasks, newTask("domainset", source, TRUE))
  /\ pendingPromise' = Len(tasks) + 1
  /\ UNCHANGED <<calls, title, description, preprocessed, preprocessCalls, reads,
                 lastRead, mutLog, emitted, published>>
  /\ UNCHANGED <<varsEq, acc, varsCl, varsPub>>

\* addFromRuleset(source), the source an iterable or a Promise of one
AddFromRuleset ==
  /\ \E source \in RulesetSources, isPromise \in BOOLEAN :
       tasks' = Append(tasks, newTask("ruleset", source, ~isPromise))
  /\ pendingPromise' = Len(tasks) + 1
  /\ UNCHANGED <<calls, title, description, preprocessed, preprocessCalls, reads,
                 lastRead, mutLog, emitted, published>>
  /\ UNCHANGED <<varsEq, acc, varsCl, varsPub>>

\* the Promise given to addFromRuleset resolves
SourceResolve(i) ==
  /\ ~tasks[i].srcReady
  /\ tasks' = [tasks EXCEPT ![i].srcReady = TRUE]
  /\ UNCHANGED <<pendingPromise, calls, title, description, preprocessed,
                 preprocessCalls, reads, lastRead, mutLog, emitted, published>>
  /\ UNCHANGED <<varsEq, acc, varsCl, varsPub>>

\* the `then` callback of the task runs: addFrom...Promise(source) is entered
TaskStart(i) ==
  /\ tasks[i].status = "queued"
  /\ tasks[i].srcReady
  /\ promiseState(tasks[i].pred) = "fulfilled"
  /\ tasks' = [tasks EXCEPT ![i].status = "running"]
  /\ UNCHANGED <<pendingPromise, calls, title, description, preprocessed,
                 preprocessCalls, reads, lastRead, mutLog, emitted, published>>
  /\ UNCHANGED <<varsEq, acc, varsCl, varsPub>>

\* one iteration of `for await (const line of source)`
TaskLine(i) ==
  /\ tasks[i].status = "running"
  /\ tasks[i].pos < Len(tasks[i].source)
  /\ LET line == tasks[i].source[tasks[i].pos + 1]
         r == IF tasks[i].kind = "ruleset"
              THEN classifyRuleLine(acc, line)
              ELSE classifyDomainsetLine(acc, line)
     IN
     IF r.threw
     THEN /\ tasks' = [tasks EXCEPT ![i].status = "failed"]
          /\ UNCHANGED <<acc, mutLog>>
     ELSE /\ tasks' = [tasks EXCEPT ![i].pos = @ + 1]
          /\ acc' = r.acc
          /\ mutLog' = Append(mutLog, i)
  /\ UNCHANGED <<pendingPromise, calls, title, description, preprocessed,
                 preprocessCalls, reads, lastRead, emitted, published>>
  /\ UNCHANGED <<varsEq, varsCl, varsPub>>

\* the source is exhausted: addFrom...Promise returns
TaskFinish(i) ==
  /\ tasks[i].status = "running"
  /\ tasks[i].pos = Len(tasks[i].source)
  /\ tasks' = [tasks EXCEPT ![i].status = "done"]
  /\ UNCHANGED <<pendingPromise, calls, title, description, preprocessed,
                 preprocessCalls, reads, lastRead, mutLog, emitted, published>>
  /\ UNCHANGED <<varsEq, acc, varsCl, varsPub>>

\* the options of a call that publishes nothing (yet)
NoFlags == [surge |-> FALSE, clash |-> FALSE, singbox |-> FALSE, sgmodule |-> "undefined"]

\* the record of a call: what it awaits and where it stands, with the
\* instance as the call found it (tasks queued so far, a task failed already,
\* title or description null), its arguments, and the channel writes it has
\* started and is waiting for
newCall(op, stage, args, flags) ==
  [op |-> op, awaits |-> pendingPromise, stage |-> stage,
   nullAtCall |-> (title = "null" \/ description = "null"),
   after |-> Len(tasks),
   sawFailure |-> (\E i \in 1..Len(tasks) : tasks[i].status = "failed"),
   args |-> args, flags |-> flags, started |-> {}, pendingCh |-> {}]

\* a call of done(), write() or writeClash(), up to `await this.pendingPromise`
BarrierCall(op, flags) ==
  /\ calls' = Append(calls, newCall(op, "barrier", <<>>, flags))
  /\ UNCHANGED <<pendingPromise, tasks, title, description, preprocessed,
                 preprocessCalls, reads, lastRead, mutLog, emitted, published>>
  /\ UNCHANGED <<varsEq, acc, varsCl, varsPub>>

Done == BarrierCall("done", NoFlags)

\* the options of write(): the three flags, and mitmSgmodule being
\* undefined, or defined and returning null or lines
WriteOptions ==
  [surge : BOOLEAN, clash : BOOLEAN, singbox : BOOLEAN,
   sgmodule : {"undefined", "null", "lines"}]

\* write() with no argument, on a subclass without mitmSgmodule
DefaultWriteOptions ==
  {[surge |-> TRUE, clash |-> TRUE, singbox |-> TRUE, sgmodule |-> "undefined"]}

\* write(options)
Write(options) == \E flags \in options : BarrierCall("write", flags)

WriteClash == BarrierCall("writeClash", NoFlags)

\* done() resumes after its await: `this.pendingPromise = null; return this`
DoneResume(c) ==
  /\ calls[c].stage = "barrier"
  /\ promiseState(calls[c].awaits) = "fulfilled"
  /\ pendingPromise' = 0
  /\ calls' = [calls EXCEPT ![c].stage = IF calls[c].op = "done" THEN "resolved" ELSE "validate"]
  /\ UNCHANGED <<tasks, title, description, preprocessed, preprocessCalls, reads,
                 lastRead, mutLog, emitted, published>>
  /\ UNCHANGED <<varsEq, acc, varsCl, varsPub>>

\* the awaited promise is rejected: the await throws and done() rejects
DoneReject(c) ==
  /\ calls[c].stage = "barrier"
  /\ promiseState(calls[c].awaits) = "rejected"
  /\ calls' = [calls EXCEPT ![c].stage = "rejectedBarrier"]
  /\ UNCHANGED <<pendingPromise, tasks, title, description, preprocessed,
                 preprocessCalls, reads, lastRead, mutLog, emitted, published>>
  /\ UNCHANGED <<varsEq, acc, varsCl, varsPub>>

\* the two invariant() calls with the one on description left out
missingMetaTitleOnly == title = "null"

\* invariant(this.title, ...) or invariant(this.description, ...) throws
missingMeta == title = "null" \/ description = "null"

\* the channels with the module published whenever mitmSgmodule is defined
writeChannelsWheneverDefined(surge, clash, singbox, sgmodule) ==
  (IF surge THEN {"surge"} ELSE {}) \cup (IF clash THEN {"clash"} ELSE {})
    \cup (IF singbox THEN {"singbox"} ELSE {})
    \cup (IF sgmodule # "undefined" THEN {"sgmodule"} ELSE {})

\* the channels write() publishes: surge, clash and singbox by their flags,
\* the module when mitmSgmodule is defined and returns lines
writeChannels(surge, clash, singbox, sgmodule) ==
  (IF surge THEN {"surge"} ELSE {}) \cup (IF clash THEN {"clash"} ELSE {})
    \cup (IF singbox THEN {"singbox"} ELSE {})
    \cup (IF sgmodule = "lines" THEN {"sgmodule"} ELSE {})

\* the emitters write() calls
writeEmitters(surge, clash, singbox, sgmodule) ==
  (IF surge THEN {"surge"} ELSE {}) \cup (IF clash THEN {"clash"} ELSE {})
    \cup (IF singbox THEN {"singbox"} ELSE {})
    \cup (IF sgmodule # "undefined" THEN {"mitmSgmodule"} ELSE {})

\* after the barrier: the invariants on title and description, then the
\* emitters and a compareAndWriteFile for each channel
WriteValidate(c) ==
  /\ calls[c].stage = "validate"
  /\ IF missingMeta
     THEN /\ calls' = [calls EXCEPT ![c].stage = "rejectedInvariant"]
          /\ UNCHANGED <<emitted, published>>
     ELSE IF calls[c].op = "writeClash"
          THEN /\ calls' = [calls EXCEPT ![c].stage = "publishing",
                                         ![c].started = {"clash"},
                                         ![c].pendingCh = {"clash"}]
               /\ emitted' = emitted \cup {"clash"}
               /\ published' = published \cup {"clash"}
          ELSE LET f == calls[c].flags
                   channels == writeChannels(f.surge, f.clash, f.singbox, f.sgmodule)
               IN
               /\ calls' = [calls EXCEPT ![c].stage = "publishing",
                                         ![c].started = channels,
                                         ![c].pendingCh = channels]
               /\ emitted' = emitted \cup writeEmitters(f.surge, f.clash, f.singbox, f.sgmodule)
               /\ published' = published \cup channels
  /\ UNCHANGED <<pendingPromise, tasks, title, description, preprocessed,
                 preprocessCalls, reads, lastRead, mutLog>>
  /\ UNCHANGED <<varsEq, acc, varsCl, varsPub>>

\* one compareAndWriteFile of the call completes
ChannelComplete(c) ==
  /\ calls[c].stage = "publishing"
  /\ \E ch \in calls[c].pendingCh :
       calls' = [calls EXCEPT ![c].pendingCh = @ \ {ch}]
  /\ UNCHANGED <<pendingPromise, tasks, title, description, preprocessed,
                 preprocessCalls, reads, lastRead, mutLog, emitted, published>>
  /\ UNCHANGED <<varsEq, acc, varsCl, varsPub>>

\* one compareAndWriteFile of the call rejects: Promise.all rejects at once
\* (for writeClash, the promise returned rejects)
ChannelFail(c) ==
  /\ calls[c].stage = "publishing"
  /\ calls[c].pendingCh # {}
  /\ calls' = [calls EXCEPT ![c].stage = "rejectedWrite"]
  /\ UNCHANGED <<pendingPromise, tasks, title, description, preprocessed,
                 preprocessCalls, reads, lastRead, mutLog, emitted, published>>
  /\ UNCHANGED <<varsEq, acc, varsCl, varsPub>>

\* every compareAndWriteFile of the call has completed (Promise.all)
WriteJoin(c) ==
  /\ calls[c].stage = "publishing"
  /\ calls[c].pendingCh = {}
  /\ calls' = [calls EXCEPT ![c].stage = "resolved"]
  /\ UNCHANGED <<pendingPromise, tasks, title, description, preprocessed,
                 preprocessCalls, reads, lastRead, mutLog, emitted, published>>
  /\ UNCHANGED <<varsEq, acc, varsCl, varsPub>>

\* guardPendingPromise() throws
guardThrows == pendingPromise # 0

\* a read of $preprocessed: runPreprocess(), then the cached value
ReadPreprocessed ==
  /\ reads' = reads + 1
  /\ IF preprocessed = "null"
     THEN IF guardThrows
          THEN /\ lastRead' = "threw"
               /\ UNCHANGED <<preprocessed, preprocessCalls>>
          ELSE /\ \E result \in {"null", "view"} : preprocessed' = result
               /\ preprocessCalls' = preprocessCalls + 1
               /\ lastRead' = "returned"
     ELSE /\ lastRead' = "returned"
          /\ UNCHANGED <<preprocessed, preprocessCalls>>
  /\ UNCHANGED <<pendingPromise, tasks, calls, title, description, mutLog, emitted,
                 published>>
  /\ UNCHANGED <<varsEq, acc, varsCl, varsPub>>

\* withTitle(title)
WithTitle ==
  /\ title = "null"
  /\ title' = "set"
  /\ UNCHANGED <<pendingPromise, tasks, calls, description, preprocessed,
                 preprocessCalls, reads, lastRead, mutLog, emitted, published>>
  /\ UNCHANGED <<varsEq, acc, varsCl, varsPub>>

\* withDescription(description)
WithDescription ==
  /\ description = "null"
  /\ description' = "set"
  /\ UNCHANGED <<pendingPromise, tasks, calls, title, preprocessed,
                 preprocessCalls, reads, lastRead, mutLog, emitted, published>>
  /\ UNCHANGED <<varsEq, acc, varsCl, varsPub>>

\* the domains given to addDomainSuffix and to whitelistDomain
SuffixInputs == { <<"a">>, <<".", "a">> }

BulkSuffixInputs == { << <<".", "a">>, <<"b">> >> }

WhitelistInputs == { <<"a">>, <<".", "a">> }

\* a synchronous call on the buckets: it has returned when the step ends
SyncCall(op, args, a) ==
  /\ acc' = a
  /\ calls' = Append(calls, newCall(op, "returned", args, NoFlags))
  /\ UNCHANGED <<pendingPromise, tasks, title, description, preprocessed,
                 preprocessCalls, reads, lastRead, mutLog, emitted, published>>
  /\ UNCHANGED <<varsEq, varsCl, varsPub>>

\* addDomainSuffix(domain), lineFromDot defaulting to domain[0] === '.'
AddDomainSuffix ==
  \E domain \in SuffixInputs :
    SyncCall("addDomainSuffix", <<domain>>,
             addDomainSuffix(acc, domain, CharAt(domain, 0) = "."))

\* the loop of bulkAddDomainSuffix over domains[from..]
RECURSIVE bulkAddDomainSuffix(_, _, _)
bulkAddDomainSuffix(a, domains, from) ==
  IF from > Len(domains) THEN a
  ELSE bulkAddDomainSuffix(
         addDomainSuffix(a, domains[from], CharAt(domains[from], 0) = "."),
         domains, from + 1)

\* bulkAddDomainSuffix(domains)
BulkAddDomainSuffix ==
  \E domains \in BulkSuffixInputs :
    SyncCall("bulkAddDomainSuffix", domains, bulkAddDomainSuffix(acc, domains, 1))

\* whitelistDomain(domain)
WhitelistDomain ==
  \E domain \in WhitelistInputs :
    SyncCall("whitelistDomain", <<domain>>, whitelistDomain(acc, domain))

\* the instance after construction
Init ==
  /\ EqOff
  /\ ClOff
  /\ PubOff
  /\ acc = EmptyAcc
  /\ pendingPromise = 0
  /\ tasks = <<>>
  /\ calls = <<>>
  /\ title = "null"
  /\ description = "null"
  /\ preprocessed = "null"
  /\ preprocessCalls = 0
  /\ reads = 0
  /\ lastRead = "none"
  /\ mutLog = <<>>
  /\ emitted = {}
  /\ published = {}

\* Ingestion, the barrier and the preprocessed view, within the bounds
Next ==
  \/ Len(tasks) + Len(calls) + reads < MaxOps /\ AddFromDomainset
  \/ Len(tasks) + Len(calls) + reads < MaxOps /\ AddFromRuleset
  \/ \E i \in 1..Len(tasks) : SourceResolve(i)
  \/ \E i \in 1..Len(tasks) : TaskStart(i)
  \/ \E i \in 1..Len(tasks) : TaskLine(i)
  \/ \E i \in 1..Len(tasks) : TaskFinish(i)
  \/ Len(tasks) + Len(calls) + reads < MaxOps /\ Done
  \/ \E c \in 1..Len(calls) : DoneResume(c)
  \/ \E c \in 1..Len(calls) : DoneReject(c)
  \/ Len(tasks) + Len(calls) + reads < MaxOps /\ ReadPreprocessed

Spec == Init /\ [][Next]_vars

\* Ingestion and publication: write() with its default options and
\* writeClash(), with the metadata setters, within the bounds
NextWrite ==
  \/ Len(tasks) + Len(calls) < MaxWriteOps /\ AddFromDomainset
  \/ Len(tasks) + Len(calls) < MaxWriteOps /\ AddFromRuleset
  \/ \E i \in 1..Len(tasks) : SourceResolve(i)
  \/ \E i \in 1..Len(tasks) : TaskStart(i)
  \/ \E i \in 1..Len(tasks) : TaskLine(i)
  \/ \E i \in 1..Len(tasks) : TaskFinish(i)
  \/ Len(tasks) + Len(calls) < MaxWriteOps /\ Write(DefaultWriteOptions)
  \/ Len(tasks) + Len(calls) < MaxWriteOps /\ WriteClash
  \/ \E c \in 1..Len(calls) : DoneResume(c)
  \/ \E c \in 1..Len(calls) : DoneReject(c)
  \/ \E c \in 1..Len(calls) : WriteValidate(c)
  \/ \E c \in 1..Len(calls) : ChannelComplete(c)
  \/ \E c \in 1..Len(calls) : ChannelFail(c)
  \/ \E c \in 1..Len(calls) : WriteJoin(c)
  \/ WithTitle
  \/ WithDescription

SpecWrite == Init /\ [][NextWrite]_vars

\* Ingestion, the synchronous suffix adders, whitelistDomain and the
\* barrier, within the bounds
NextWhitelist ==
  \/ Len(tasks) + Len(calls) < MaxOps /\ AddFromDomainset
  \/ Len(tasks) + Len(calls) < MaxOps /\ AddFromRuleset
  \/ Len(tasks) + Len(calls) < MaxOps /\ AddDomainSuffix
  \/ Len(tasks) + Len(calls) < MaxOps /\ BulkAddDomainSuffix
  \/ Len(tasks) + Len(calls) < MaxOps /\ WhitelistDomain
  \/ \E i \in 1..Len(tasks) : SourceResolve(i)
  \/ \E i \in 1..Len(tasks) : TaskStart(i)
  \/ \E i \in 1..Len(tasks) : TaskLine(i)
  \/ \E i \in 1..Len(tasks) : TaskFinish(i)
  \/ Len(tasks) + Len(calls) < MaxOps /\ Done
  \/ \E c \in 1..Len(calls) : DoneResume(c)
  \/ \E c \in 1..Len(calls) : DoneReject(c)

SpecWhitelist == Init /\ [][NextWhitelist]_vars

\* Publication alone: write() under every option and writeClash(), with
\* the metadata setters, on an instance that ingests nothing
NextPublish ==
  \/ Len(calls) < MaxWriteCalls /\ Write(WriteOptions)
  \/ Len(calls) < MaxWriteCalls /\ WriteClash
  \/ \E c \in 1..Len(calls) : DoneResume(c)
  \/ \E c \in 1..Len(calls) : WriteValidate(c)
  \/ \E c \in 1..Len(calls) : ChannelComplete(c)
  \/ \E c \in 1..Len(calls) : ChannelFail(c)
  \/ \E c \in 1..Len(calls) : WriteJoin(c)
  \/ WithTitle
  \/ WithDescription

SpecPublish == Init /\ [][NextPublish]_vars

(***************************************************************************)
(* The instance's claims, over Spec and SpecWrite.                         *)
(***************************************************************************)
\* the lines of a source that addFromRulesetPromise does not recognize
RECURSIVE UnrecognizedOf(_)
UnrecognizedOf(source) ==
  IF source = <<>> THEN <<>>
  ELSE (IF Head(source) # <<>> /\ Head(source)[1] \in SupportedTypes
        THEN <<>> ELSE <<Head(source)>>) \o UnrecognizedOf(Tail(source))

\* the unrecognized lines of the tasks 1..n, in call order
RECURSIVE UnrecognizedUpTo(_)
UnrecognizedUpTo(n) ==
  IF n = 0 THEN <<>>
  ELSE UnrecognizedUpTo(n - 1)
         \o (IF tasks[n].kind = "ruleset" THEN UnrecognizedOf(tasks[n].source) ELSE <<>>)

\* C1: the queued ingestion tasks run one after another in call order: no
\* two tasks are in progress at once, every mutation of an earlier task comes
\* before the first mutation of a later one, and once all tasks have
\* completed otherRules is the concatenation, in call order, of each task's
\* unrecognized lines.
C1_TasksRunInCallOrder ==
  /\ Cardinality({i \in 1..Len(tasks) : tasks[i].status = "running"}) <= 1
  /\ \A k \in 1..(Len(mutLog) - 1) : mutLog[k] <= mutLog[k + 1]
  /\ (\A i \in 1..Len(tasks) : tasks[i].status = "done")
       => acc["otherRules"] = UnrecognizedUpTo(Len(tasks))

\* the name a suffix rule or a whitelist entry is about: the domain without
\* its leading dot
DomainName(domain) == IF CharAt(domain, 0) = "." THEN Tail(domain) ELSE domain

\* the task adds `name` as a suffix rule
TaskAddsSuffix(i, name) ==
  \E k \in 1..Len(tasks[i].source) :
    tasks[i].source[k] = (IF tasks[i].kind = "domainset"
                          THEN <<".">> \o name
                          ELSE <<"DOMAIN-SUFFIX", ",">> \o name)

\* the synchronous call adds `name` as a suffix rule
CallAddsSuffix(a, name) ==
  /\ calls[a].op \in {"addDomainSuffix", "bulkAddDomainSuffix"}
  /\ \E k \in 1..Len(calls[a].args) : DomainName(calls[a].args[k]) = name

\* `name` was added as a suffix rule before the call w in program order,
\* and by no call after it
AddedOnlyBefore(w, name) ==
  /\ \/ \E i \in 1..calls[w].after : TaskAddsSuffix(i, name)
     \/ \E a \in 1..(w - 1) : CallAddsSuffix(a, name)
  /\ ~\E i \in (calls[w].after + 1)..Len(tasks) : TaskAddsSuffix(i, name)
  /\ ~\E a \in (w + 1)..Len(calls) : CallAddsSuffix(a, name)

\* a done() called after the call w has resolved, and every task queued
\* has completed
SettledAfter(w) ==
  /\ \A i \in 1..Len(tasks) : tasks[i].status = "done"
  /\ \E c \in (w + 1)..Len(calls) :
       /\ calls[c].op = "done" /\ calls[c].stage = "resolved"
       /\ calls[c].after = Len(tasks)

\* C13: a domain added as a suffix rule and whitelisted later in program
\* order is not in the domain trie once done() has resolved.
C13_WhitelistedSuffixNotInTrie ==
  \A w \in 1..Len(calls) :
    (/\ calls[w].op = "whitelistDomain"
     /\ AddedOnlyBefore(w, DomainName(calls[w].args[1]))
     /\ SettledAfter(w))
    => [domain |-> DomainName(calls[w].args[1]), suffix |-> TRUE] \notin acc["domainTrie"]

\* a done() call resolves in this step
DoneResolves(c) == calls[c].stage = "barrier" /\ calls'[c].stage = "resolved"

\* C2: at the moment a done() call resolves, pendingPromise is null and no
\* queued ingestion task is still unstarted or unfinished.
C2_DoneResolvesAfterAllTasks ==
  [][\A c \in 1..Len(calls) :
       DoneResolves(c) =>
         /\ pendingPromise' = 0
         /\ \A i \in 1..Len(tasks) : ~TaskIncomplete(i)]_vars

\* C3: a read of the preprocessed view made while some queued ingestion task
\* has not completed throws.
C3_ReadDuringIngestionThrows ==
  [][(reads' = reads + 1 /\ \E i \in 1..Len(tasks) : TaskIncomplete(i))
       => lastRead' = "threw"]_vars

\* C4: preprocess() is invoked at most once per instance, whatever it
\* returns.
C4_PreprocessAtMostOnce == preprocessCalls <= 1

\* the call leaves its validation in this step
Validates(c) == calls[c].stage = "validate" /\ calls'[c].stage # "validate"

\* the call rejects on a missing title or description, no emitter has been
\* called and no file compared or written
RejectsBeforePublishing(c) ==
  /\ calls'[c].stage = "rejectedInvariant"
  /\ emitted' = emitted
  /\ published' = published

\* C9 as stated: a write() or writeClash() called while title or description
\* is null rejects after the barrier, before any emitter or file operation.
C9_NullAtCallRejects ==
  [][\A c \in 1..Len(calls) :
       (Validates(c) /\ calls[c].nullAtCall) => RejectsBeforePublishing(c)]_vars

\* C9 amended: a write() or writeClash() whose barrier has resolved while
\* title or description is null rejects before any emitter or file
\* operation (the two are read after the barrier, not at the call).
C9_NullAfterBarrierRejects ==
  [][\A c \in 1..Len(calls) :
       (Validates(c) /\ (title = "null" \/ description = "null"))
         => RejectsBeforePublishing(c)]_vars

\* C9's case: with a title and no description, a write call has passed the
\* barrier and rejected, and nothing has been emitted or published
C9_Witness ==
  /\ title = "set"
  /\ description = "null"
  /\ emitted = {}
  /\ published = {}
  /\ \E c \in 1..Len(calls) :
       calls[c].op \in {"write", "writeClash"} /\ calls[c].stage = "rejectedInvariant"

\* the call is a write() that has passed its invariants
WritePublished(c) ==
  /\ calls[c].op = "write"
  /\ calls[c].stage \in {"publishing", "resolved", "rejectedWrite"}

\* C16: write() invokes compareAndWriteFile for surge, clash and singbox
\* exactly when the flag is true and for the module channel exactly when
\* mitmSgmodule is defined and returns lines; no file operation is made for
\* a channel that is not applicable; write() resolves only after every
\* channel write it started has completed, and not when one has failed.
C16_ChannelsByApplicability ==
  /\ \A c \in 1..Len(calls) :
       WritePublished(c) =>
         /\ ("surge" \in calls[c].started) <=> calls[c].flags.surge
         /\ ("clash" \in calls[c].started) <=> calls[c].flags.clash
         /\ ("singbox" \in calls[c].started) <=> calls[c].flags.singbox
         /\ ("sgmodule" \in calls[c].started) <=> (calls[c].flags.sgmodule = "lines")
         /\ calls[c].started \subseteq {"surge", "clash", "singbox", "sgmodule"}
  /\ published = UNION {calls[c].started : c \in 1..Len(calls)}
  /\ \A c \in 1..Len(calls) :
       (calls[c].op = "write" /\ calls[c].stage = "resolved") => calls[c].pendingCh = {}
  /\ \A c \in 1..Len(calls) :
       (calls[c].op = "write" /\ calls[c].stage = "rejectedWrite") => calls[c].pendingCh # {}

\* C16's case: a write() without the clash flag, whose mitmSgmodule returned
\* null, has resolved: two channels were written, none for the module
C16_Witness ==
  /\ published = {"surge", "singbox"}
  /\ "mitmSgmodule" \in emitted
  /\ \E c \in 1..Len(calls) :
       /\ calls[c].op = "write"
       /\ calls[c].stage = "resolved"
       /\ calls[c].flags = [surge |-> TRUE, clash |-> FALSE, singbox |-> TRUE,
                            sgmodule |-> "null"]

\* some ingestion task queued before the call c has failed
FailedBefore(c) == \E i \in 1..calls[c].after : tasks[i].status = "failed"

\* C18: when an ingestion task queued before a write() or writeClash() fails,
\* the call does not resolve and no channel of it creates or modifies a
\* file.
C18_IngestionFailureAbortsPublishing ==
  \A c \in 1..Len(calls) :
    (calls[c].op \in {"write", "writeClash"} /\ FailedBefore(c))
      => /\ calls[c].started = {}
         /\ calls[c].stage \notin {"publishing", "resolved"}

\* C20: once an ingestion task has failed, no task queued after it executes,
\* pendingPromise is not reset to null, and every done() called after the
\* failure stays pending or rejects at its barrier.
C20_IngestionFailureSticky ==
  /\ \A i \in 1..Len(tasks) : \A j \in (i + 1)..Len(tasks) :
       tasks[i].status = "failed" => tasks[j].status = "queued"
  /\ (\E i \in 1..Len(tasks) : tasks[i].status = "failed") => pendingPromise # 0
  /\ \A c \in 1..Len(calls) :
       calls[c].sawFailure => calls[c].stage \in {"barrier", "rejectedBarrier"}

(***************************************************************************)
(* The publisher's claims, over SpecPub.                                   *)
(***************************************************************************)
\* l2 has the length of l1 and differs from it only in lines that start
\* with '#' in both
SameUpToBanner(l1, l2) ==
  /\ Len(l1) = Len(l2)
  /\ \A i \in 1..Len(l1) :
       \/ l1[i] = l2[i]
       \/ CharAt(l1[i], 0) = "#" /\ CharAt(l2[i], 0) = "#"

\* the call has compared a candidate that differs at most in banner lines
\* from the lines the file was last written from
CawRepublishing ==
  /\ cawPc = "compared"
  /\ pubWritten.some
  /\ SameUpToBanner(pubWritten.lines, cawLines)

\* the call ends without a write operation and leaves the file as it is
CawNoWrite ==
  /\ cawPc' = "returned"
  /\ cawWrites' = 0
  /\ UNCHANGED <<fsExists, fsContent>>

\* C5 as stated: after compareAndWriteFile(L1, p) has written p, a following
\* compareAndWriteFile(L2, p) with L2 equal to L1 up to the content of its
\* '#' lines performs no write, for every L1.
C5_RepublishWritesNothing == [][CawRepublishing => CawNoWrite]_vars

\* C5 amended: the same, for a non-empty L1 (an empty candidate is never
\* equal to a file and is written again on every call).
C5_NonEmptyRepublishWritesNothing ==
  [][(CawRepublishing /\ Len(cawLines) >= 1) => CawNoWrite]_vars

\* C5's case: a streamed file (500 lines or more) has been published again
\* with another banner, and the call returned without a write
C5_Witness ==
  /\ cawPc = "returned"
  /\ cawIsEqual
  /\ cawWrites = 0
  /\ pubWritten.some
  /\ SameUpToBanner(pubWritten.lines, cawLines)
  /\ pubWritten.lines # cawLines
  /\ Len(cawLines) >= StreamThreshold
  /\ readerFinalEmpty

\* the same below the threshold, with a reader that yields no last empty line
C5_WitnessBuffered ==
  /\ cawPc = "returned"
  /\ cawIsEqual
  /\ cawWrites = 0
  /\ pubWritten.some
  /\ SameUpToBanner(pubWritten.lines, cawLines)
  /\ pubWritten.lines # cawLines
  /\ Len(cawLines) < StreamThreshold
  /\ ~readerFinalEmpty

\* the lines lo..hi, each followed by a newline (computed by halves)
RECURSIVE terminatedLines(_, _, _)
terminatedLines(lines, lo, hi) ==
  IF lo > hi THEN <<>>
  ELSE IF lo = hi THEN lines[lo] \o <<"\n">>
  ELSE LET mid == (lo + hi) \div 2 IN
       terminatedLines(lines, lo, mid) \o terminatedLines(lines, mid + 1, hi)

\* the call makes its comparison in this step
CawCompares == cawPc # "compared" /\ cawPc' = "compared"

\* the decision of the call: no write and the file as it was when the
\* comparison is true, a write of the file otherwise
CawDecision ==
  /\ CawCompares =>
       (cawIsEqual' <=>
          (fsExists /\ fileEqual(cawLines', readFileByLine(fsContent, readerFinalEmpty))))
  /\ (cawPc = "compared" /\ cawIsEqual) => CawNoWrite
  /\ (cawPc = "compared" /\ ~cawIsEqual) =>
       (fsExists' /\ (cawWrites' = 1 \/ streamOpen'))

\* C15 as stated: compareAndWriteFile rewrites the file exactly when it does
\* not exist or fileEqual is false (always when it is absent, never and
\* leaving the content unchanged when the comparison is true), and after a
\* write the file holds exactly the candidate lines, each followed by a
\* newline.
C15_RewritesExactlyWhenDifferent ==
  /\ [][CawDecision]_vars
  /\ []((cawPc = "returned" /\ ~cawIsEqual)
         => (fsExists /\ fsContent = terminatedLines(cawLines, 1, Len(cawLines))))

\* C15 amended: the same, the content after a write being the candidate
\* lines each followed by a newline for a candidate of at least one line,
\* and a single newline for the empty candidate.
C15_RewritesExactlyWhenDifferentNonEmpty ==
  /\ [][CawDecision]_vars
  /\ []((cawPc = "returned" /\ ~cawIsEqual)
         => /\ fsExists
            /\ Len(cawLines) >= 1 => fsContent = terminatedLines(cawLines, 1, Len(cawLines))
            /\ Len(cawLines) = 0 => fsContent = <<"\n">>)

\* C15's case: the file was found equal to a candidate whose banner is not
\* the file's, and the call returned with the file as it was and no write
C15_Witness ==
  /\ cawPc = "returned"
  /\ cawIsEqual
  /\ cawWrites = 0
  /\ fsExists
  /\ Len(cawLines) >= 1
  /\ fsContent # terminatedLines(cawLines, 1, Len(cawLines))

\* a write operation is issued in this step
CawIssuesWrite == cawWrites' = cawWrites + 1

\* C17: when compareAndWriteFile writes, a candidate of fewer than 500 lines
\* is written by exactly one buffered write of the joined content; one of
\* 500 lines or more is streamed line by line in index order, each line
\* once, no line being written while the acknowledgment of the line before
\* is awaited, and the stream is ended after the last line.
C17_WriteStrategyBySize ==
  /\ []((cawPc = "returned" /\ ~cawIsEqual /\ Len(cawLines) < StreamThreshold)
         => (cawWrites = 1 /\ cawI = 0 /\ ~streamOpen
             /\ fsContent = fastStringArrayJoin(cawLines) \o <<"\n">>))
  /\ []((cawPc = "returned" /\ ~cawIsEqual /\ Len(cawLines) >= StreamThreshold)
         => (cawWrites = Len(cawLines) /\ cawI = Len(cawLines) /\ ~streamOpen
             /\ fsContent = terminatedLines(cawLines, 1, Len(cawLines))))
  /\ [][(CawIssuesWrite /\ cawPc # "compared")
          => /\ cawPc = "streaming"
             /\ streamOpen
             /\ Len(cawLines) >= StreamThreshold
             /\ cawI' = cawI + 1
             /\ fsContent' = fsContent \o cawLines[cawI + 1] \o <<"\n">>]_vars
  /\ [][(CawIssuesWrite /\ cawPc = "compared")
          => (Len(cawLines) < StreamThreshold /\ ~streamOpen')]_vars
  /\ [][(streamOpen /\ ~streamOpen') => (cawPc = "streaming" /\ cawI = Len(cawLines))]_vars

\* C17's case: a candidate of exactly 500 lines has been streamed, one write
\* a line, and the stream ended
C17_Witness ==
  /\ cawPc = "returned"
  /\ ~cawIsEqual
  /\ Len(cawLines) = StreamThreshold
  /\ cawWrites = StreamThreshold
  /\ cawI = StreamThreshold
  /\ ~streamOpen

\* C19: on the streaming path the write stream is closed on every exit of
\* compareAndWriteFile, a failed line write included.
C19_StreamClosedOnEveryExit ==
  cawPc \in {"returned", "threw"} => ~streamOpen

(***************************************************************************)
(* The comparator's claims, over SpecEq.                                   *)
(***************************************************************************)
\* the pairwise equality of the comparator as the specification words it
LinePairEqual(a, b) ==
  \/ Len(a) = 0 /\ Len(b) = 0
  \/ CharAt(a, 0) = "#" /\ CharAt(b, 0) = "#"
  \/ CharAt(a, 0) = "!" /\ CharAt(b, 0) = "!"
  \/ /\ CharAt(a, 0) = "/" /\ CharAt(a, 1) = "/" /\ CharAt(a, 3) = "#"
     /\ CharAt(b, 0) = "/" /\ CharAt(b, 1) = "/" /\ CharAt(b, 3) = "#"
  \/ a = b

\* the first Len(eqLinesA) lines of the existing file match the candidate
EqPrefixMatches ==
  /\ Len(eqSource) >= Len(eqLinesA)
  /\ \A i \in 1..Len(eqLinesA) : LinePairEqual(eqLinesA[i], eqSource[i])

\* C6: when the existing file has more lines than the non-empty candidate
\* and the first Len(candidate) lines match pairwise, fileEqual returns true
\* exactly when every extra existing line is empty.
C6_ExtraLinesAllEmpty ==
  (/\ eqPc = "returned"
   /\ Len(eqLinesA) >= 1
   /\ Len(eqSource) > Len(eqLinesA)
   /\ EqPrefixMatches)
  => (eqResult <=> \A i \in (Len(eqLinesA) + 1)..Len(eqSource) : Len(eqSource[i]) = 0)

\* C7: for two line sequences of equal length n >= 1, fileEqual is true
\* exactly when every pair of lines at the same index is both empty, both
\* '#', both '!', both "//" with '#' at offset 3, or identical.
C7_EqualLengthPairwise ==
  (/\ eqPc = "returned"
   /\ Len(eqLinesA) >= 1
   /\ Len(eqSource) = Len(eqLinesA))
  => (eqResult <=> \A i \in 1..Len(eqLinesA) : LinePairEqual(eqLinesA[i], eqSource[i]))

\* C7's case: two different sequences of the same length, one pair being
\* header dividers of different content, found equal
C7_Witness ==
  /\ eqPc = "returned"
  /\ Len(eqLinesA) = MaxLines
  /\ Len(eqSource) = Len(eqLinesA)
  /\ eqResult
  /\ \E i \in 1..Len(eqLinesA) :
       /\ eqLinesA[i] # eqSource[i]
       /\ CharAt(eqLinesA[i], 3) = "#"

\* C8: fileEqual returns false whenever the existing file has fewer lines
\* than the candidate, and whenever the candidate is empty.
C8_ShorterOrEmptyNeverEqual ==
  (/\ eqPc = "returned"
   /\ (Len(eqSource) < Len(eqLinesA) \/ Len(eqLinesA) = 0))
  => eqResult = FALSE

\* C8's case: the existing file is a proper, non-empty prefix of the
\* candidate and the call has returned false
C8_Witness ==
  /\ eqPc = "returned"
  /\ Len(eqSource) >= 1
  /\ Len(eqSource) < Len(eqLinesA)
  /\ eqSource = SubSeq(eqLinesA, 1, Len(eqSource))
  /\ eqResult = FALSE

====
